---- MODULE Spec2Model ----
(***************************************************************************)
(* BankSight data cleaning pipeline (scripts/clean_data.py).               *)
(*                                                                         *)
(* The raw directory holds one file per entity; the main script calls the  *)
(* seven cleaners one after the other.  Each cleaner loads its raw file    *)
(* into a DataFrame, transforms it column by column and saves it in the    *)
(* cleaned directory.  No cleaner and no caller catches an exception, so   *)
(* an exception raised by a loader ends the whole script.                  *)
(*                                                                         *)
(* A DataFrame is a sequence of rows; a row is a record of cells plus the  *)
(* "index" label pandas gives it on load (0, 1, 2, ...), which survives    *)
(* drop_duplicates and boolean filtering and is left out by                *)
(* to_csv(index=False).                                                    *)
(*                                                                         *)
(* The module also covers load_json on the text of a file (SpecJson), the  *)
(* script run again (SpecRerun) or over a cleaned directory that an        *)
(* earlier run left (SpecEarlier), scripts/load_database.py and report 14  *)
(* of scripts/queries.py on the cleaned files of a run (SpecLoad,          *)
(* SpecReport), and the query helpers of app.py (SpecHelpers).             *)
(***************************************************************************)
EXTENDS Integers, Sequences, FiniteSets, TLC

VARIABLES
    raw,          \* data/raw: entity -> the raw file its cleaner selects
    cleaned,      \* data/cleaned: entity -> the cleaned file, if written
    saved_index,  \* entity -> df.index of the frame handed to save_csv
    skipped,      \* entities whose "not found - skipping" line was printed
    pc,           \* next call of the main block (1..7), 8 after the last
    status,       \* "running", "crashed" (uncaught exception) or "done"
    content,      \* load_json: the text of the file it is called on
    loaded,       \* load_json: not called yet, its records, or its exception
    db,           \* database/banksight.db: table -> no table, or its rows
    lpc,          \* load_database.py: the next statement block (1..10)
    lstatus,      \* load_database.py: "idle", "running", "crashed" or "done"
    counts,       \* load_database.py: the row counts its verification printed
    conns,        \* connections the query helpers opened and did not close
    returned,     \* what the last report or accounts query returned
    session       \* dashboard session -> its st.session_state and last message

cleanvars == <<raw, cleaned, saved_index, skipped, pc, status>>

jsonvars == <<content, loaded>>

loadvars == <<db, lpc, lstatus, counts>>

helpervars == <<conns, returned>>

simvars == <<session>>

vars == <<cleanvars, jsonvars, loadvars, helpervars, simvars>>

-----------------------------------------------------------------------------
(* Bounds *)

\* most rows in one raw file
MaxRows == 2

\* deposits are followed up to this balance
MaxBalance == 3000

\* objects in a JSON text
MaxObjects == 3

\* connections left open at a time
MaxConns == 2

-----------------------------------------------------------------------------
(* Cells.  NaN/None/NaT is Null; text is a sequence of characters.         *)

Null == [t |-> "null"]

Num(n) == [t |-> "num", v |-> n]

Str(s) == [t |-> "str", s |-> s]

\* a raw text that to_datetime parses: a day number and an hour of that day
Ts(d, h) == [t |-> "ts", day |-> d, hr |-> h]

\* the text strftime("%Y-%m-%d") writes
DateText(d) == [t |-> "date", day |-> d]

Unknown == Str(<<"U", "n", "k", "n", "o", "w", "n">>)

IsNum(c) == c.t = "num"

-----------------------------------------------------------------------------
(* The entities, in the order of the main block, and their key columns.    *)

Steps ==
    <<"customers", "accounts", "transactions", "loans",
      "credit_cards", "branches", "support_tickets">>

Entities == {Steps[i] : i \in 1..Len(Steps)}

KeyCol ==
    [customers |-> "customer_id", accounts |-> "customer_id",
     transactions |-> "txn_id", loans |-> "loan_id",
     credit_cards |-> "card_id", branches |-> "branch_id",
     support_tickets |-> "ticket_id"]

-----------------------------------------------------------------------------
(* Files *)

Missing == [k |-> "missing"]

Garbled == [k |-> "garbled"]

RowsFile(rows) == [k |-> "rows", rows |-> rows]

NoFile == [k |-> "none"]

IsRows(f) == f.k = "rows"

-----------------------------------------------------------------------------
(* pandas operations *)

\* str.strip of one text
RECURSIVE LStrip(_)
LStrip(s) ==
    IF s # <<>> /\ Head(s) = " " THEN LStrip(Tail(s)) ELSE s

RECURSIVE RStrip(_)
RStrip(s) ==
    IF s # <<>> /\ s[Len(s)] = " " THEN RStrip(SubSeq(s, 1, Len(s) - 1)) ELSE s

Strip(s) == RStrip(LStrip(s))

\* Series.str.strip: text is stripped, NaN stays NaN
StrStrip(c) == IF c.t = "str" THEN Str(Strip(c.s)) ELSE c

\* the letters of the texts the model draws, in lower and in upper case
LowerLetters == <<"a", "b", "e", "f", "l", "m", "p", "x">>

UpperLetters == <<"A", "B", "E", "F", "L", "M", "P", "X">>

IsLetter(ch) ==
    \E i \in 1..Len(LowerLetters) : ch \in {LowerLetters[i], UpperLetters[i]}

\* str.upper of one character
UpperChar(ch) ==
    IF \E i \in 1..Len(LowerLetters) : LowerLetters[i] = ch
    THEN UpperLetters[CHOOSE i \in 1..Len(LowerLetters) : LowerLetters[i] = ch]
    ELSE ch

\* str.lower of one character
LowerChar(ch) ==
    IF \E i \in 1..Len(UpperLetters) : UpperLetters[i] = ch
    THEN LowerLetters[CHOOSE i \in 1..Len(UpperLetters) : UpperLetters[i] = ch]
    ELSE ch

\* Series.str.upper: text in upper case, anything else NaN
StrUpper(c) ==
    IF c.t = "str" THEN Str([i \in 1..Len(c.s) |-> UpperChar(c.s[i])]) ELSE Null

\* Series.str.title: the first letter of every word in upper case, the other
\* letters in lower case; anything but text becomes NaN
StrTitle(c) ==
    IF c.t = "str"
    THEN Str([i \in 1..Len(c.s) |->
                 IF i = 1 \/ ~IsLetter(c.s[i - 1])
                 THEN UpperChar(c.s[i])
                 ELSE LowerChar(c.s[i])])
    ELSE Null

\* the frame has the column (every row of a frame has the same columns)
HasCol(df, col) == df # <<>> /\ col \in DOMAIN df[1]

\* the column of a file read by pd.read_csv has the object dtype, which the
\* .str accessor requires: it holds a text, or the file has no row at all
ObjectColumn(rows, col) ==
    rows = <<>> \/ \E i \in 1..Len(rows) : rows[i][col].t = "str"

\* pd.to_numeric(errors="coerce"): what does not parse becomes NaN
ToNumeric(c) == IF c.t = "num" THEN c ELSE Null

\* pd.to_datetime(errors="coerce"): what does not parse becomes NaT
ToDatetime(c) ==
    CASE c.t = "ts" -> c
      [] c.t = "date" -> Ts(c.day, 0)
      [] OTHER -> Null

\* Series.dt.strftime("%Y-%m-%d"): the time of day is dropped, NaT stays NaN
StrftimeDate(c) == IF c.t = "ts" THEN DateText(c.day) ELSE Null

\* Series.between(lo, hi), inclusive on both sides; NaN is not between
Between(c, lo, hi) == IsNum(c) /\ lo <= c.v /\ c.v <= hi

\* Series.clip(lo, hi); NaN stays NaN
Clip(c, lo, hi) ==
    IF IsNum(c)
    THEN Num(IF c.v < lo THEN lo ELSE IF c.v > hi THEN hi ELSE c.v)
    ELSE c

\* Series.clip(lower=lo)
ClipLower(c, lo) ==
    IF IsNum(c) THEN Num(IF c.v < lo THEN lo ELSE c.v) ELSE c

\* df[col] = df[col].str.strip()
StripCol(df, col) ==
    [i \in 1..Len(df) |-> [df[i] EXCEPT ![col] = StrStrip(@)]]

\* df[col] = pd.to_numeric(df[col], errors="coerce")
ToNumericCol(df, col) ==
    [i \in 1..Len(df) |-> [df[i] EXCEPT ![col] = ToNumeric(@)]]

\* df[col] = pd.to_datetime(df[col], errors="coerce"), then
\* df[col] = df[col].dt.strftime("%Y-%m-%d")
DateCol(df, col) ==
    [i \in 1..Len(df) |-> [df[i] EXCEPT ![col] = StrftimeDate(ToDatetime(@))]]

\* df[col] = df[col].clip(lo, hi)
ClipCol(df, col, lo, hi) ==
    [i \in 1..Len(df) |-> [df[i] EXCEPT ![col] = Clip(@, lo, hi)]]

\* the mutant of DropDuplicates: keep="last"
RECURSIVE DropDupLast(_, _)
DropDupLast(df, subset) ==
    IF df = <<>> THEN <<>>
    ELSE LET rest == Tail(df)
         IN  IF \E j \in 1..Len(rest) : rest[j][subset] = Head(df)[subset]
             THEN DropDupLast(rest, subset)
             ELSE <<Head(df)>> \o DropDupLast(rest, subset)

DropDuplicatesKeepLast(df, subset) == DropDupLast(df, subset)

\* df.drop_duplicates(subset=[subset], keep="first"): one pass in row order
\* that keeps a row when its key value was not seen before
RECURSIVE DropDupFrom(_, _, _, _)
DropDupFrom(df, subset, i, seen) ==
    IF i > Len(df) THEN <<>>
    ELSE IF df[i][subset] \in seen
         THEN DropDupFrom(df, subset, i + 1, seen)
         ELSE <<df[i]>> \o DropDupFrom(df, subset, i + 1, seen \cup {df[i][subset]})

DropDuplicates(df, subset) == DropDupFrom(df, subset, 1, {})

\* df.fillna(value): every NaN cell of every column
FillNa(df, value) ==
    [i \in 1..Len(df) |->
        [c \in DOMAIN df[i] |->
            IF c # "index" /\ df[i][c] = Null THEN value ELSE df[i][c]]]

\* df.fillna({col: value}): the NaN cells of one column
FillNaCol(df, col, value) ==
    [i \in 1..Len(df) |-> [df[i] EXCEPT ![col] = IF @ = Null THEN value ELSE @]]

\* pd.read_csv / pd.DataFrame(records): rows labelled 0, 1, 2, ...
Frame(rows) ==
    [i \in 1..Len(rows) |->
        [c \in DOMAIN rows[i] \cup {"index"} |->
            IF c = "index" THEN i - 1 ELSE rows[i][c]]]

\* what to_csv(index=False) writes: an empty text gives the same empty field
\* as a missing value
CsvRows(df) ==
    [i \in 1..Len(df) |->
        [c \in DOMAIN df[i] \ {"index"} |->
            IF df[i][c] = Str(<<>>) THEN Null ELSE df[i][c]]]

IndexOf(df) == [i \in 1..Len(df) |-> df[i].index]

DigitChar == <<"0", "1", "2", "3", "4", "5", "6", "7", "8", "9">>

\* str(n) of an integer n >= 0
RECURSIVE DecimalText(_)
DecimalText(n) ==
    IF n < 10 THEN <<DigitChar[n + 1]>>
    ELSE DecimalText(n \div 10) \o <<DigitChar[(n % 10) + 1]>>

\* the dtype pandas gives a loaded column: float64 when it holds numbers and
\* at least one missing value (the integers become floats)
FloatColumn(df, col) ==
    /\ \E i \in 1..Len(df) : df[i][col] = Null
    /\ \A i \in 1..Len(df) : df[i][col].t \in {"num", "null"}

\* Series.astype(str) of one cell: text as it is, an integer as its digits, a
\* float as its digits and ".0", a missing value as "nan"
AsTypeStr(c, isfloat) ==
    CASE c.t = "str" -> c.s
      [] c.t = "num" ->
           DecimalText(c.v) \o (IF isfloat THEN <<".", "0">> ELSE <<>>)
      [] OTHER -> <<"n", "a", "n">>

\* re.sub(r"\D", "", v)
OnlyDigits(v) == SelectSeq(v, LAMBDA ch : \E d \in 1..10 : DigitChar[d] = ch)

MaskPrefix ==
    <<"*", "*", "*", "*", " ", "*", "*", "*", "*", " ", "*", "*", "*", "*", " ">>

Stars == <<"*", "*", "*", "*">>

\* clean_credit_cards: the mask of one card number text
MaskCard(v) ==
    LET d == OnlyDigits(v)
    IN  IF Len(d) >= 4
        THEN Str(MaskPrefix \o SubSeq(d, Len(d) - 3, Len(d)))
        ELSE Str(Stars)

\* df["card_number"] = df["card_number"].astype(str).apply(mask)
MaskCol(df, col, isfloat) ==
    [i \in 1..Len(df) |-> [df[i] EXCEPT ![col] = MaskCard(AsTypeStr(@, isfloat))]]

-----------------------------------------------------------------------------
(* The cleaners' row rules *)

\* the mutant of AgeOk: the lower bound one too low
AgeOkFrom17(c) == Between(c, 17, 100)

\* clean_customers: df["age"].between(18, 100)
AgeOk(c) == Between(c, 18, 100)

\* the mutant of BalanceOk: negative balances pass
BalanceOkAnyNumber(c) == IsNum(c)

\* clean_accounts: df["account_balance"] >= 0 (NaN >= 0 is False)
BalanceOk(c) == IsNum(c) /\ c.v >= 0

\* the mutant of AmountOk: zero passes
AmountOkWithZero(c) == IsNum(c) /\ c.v >= 0

\* clean_transactions: df["amount"] > 0 (NaN > 0 is False)
AmountOk(c) == IsNum(c) /\ c.v > 0

\* the mutant of GenderOf: a missing gender is left missing
GenderOfMissingKept(c) ==
    IF c = Null THEN Null
    ELSE IF c \in {Str(<<"M">>), Str(<<"M", "A", "L", "E">>)} THEN Str(<<"M">>)
    ELSE IF c \in {Str(<<"F">>), Str(<<"F", "E", "M", "A", "L", "E">>)}
         THEN Str(<<"F">>)
         ELSE Str(<<"O", "t", "h", "e", "r">>)

\* clean_customers: the lambda applied to the gender column
GenderOf(c) ==
    IF c \in {Str(<<"M">>), Str(<<"M", "A", "L", "E">>)} THEN Str(<<"M">>)
    ELSE IF c \in {Str(<<"F">>), Str(<<"F", "E", "M", "A", "L", "E">>)}
         THEN Str(<<"F">>)
         ELSE Str(<<"O", "t", "h", "e", "r">>)

\* df["gender"] = df["gender"].str.upper().str.strip(), then the lambda
GenderCol(df) ==
    [i \in 1..Len(df) |->
        [df[i] EXCEPT !["gender"] = GenderOf(StrStrip(StrUpper(@)))]]

\* df[col] = df[col].str.strip().str.title()
TitleCol(df, col) ==
    [i \in 1..Len(df) |-> [df[i] EXCEPT ![col] = StrTitle(StrStrip(@))]]

\* (closed - opened).dt.days of two parsed timestamps: the days component of
\* the difference, rounded down; NaT when either side is NaT
TimedeltaDays(closed, opened) ==
    IF closed.t = "ts" /\ opened.t = "ts"
    THEN Num(((closed.day * 24 + closed.hr) - (opened.day * 24 + opened.hr)) \div 24)
    ELSE Null

\* the mutant of ResolutionDays: the clip is left out
ResolutionDaysUnclipped(date_opened, date_closed) ==
    TimedeltaDays(ToDatetime(date_closed), ToDatetime(date_opened))

\* clean_support_tickets: the resolution_days of one row, from the two date
\* columns as already rewritten by strftime
ResolutionDays(date_opened, date_closed) ==
    ClipLower(TimedeltaDays(ToDatetime(date_closed), ToDatetime(date_opened)), 0)

-----------------------------------------------------------------------------
(* The cleaners, from the loaded frame to the frame handed to save_csv *)

\* the mutant of CustomersFrame: the age rule is applied before the
\* duplicates are dropped
CustomersFrameFilterFirst(df0) ==
    LET df1 == SelectSeq(ToNumericCol(StripCol(df0, "age"), "age"),
                         LAMBDA r : AgeOk(r.age))
        df2 == StripCol(DropDuplicates(df1, "customer_id"), "customer_id")
        dfg == IF HasCol(df2, "gender")
               THEN GenderCol(StripCol(df2, "gender"))
               ELSE df2
    IN  FillNa(dfg, Unknown)

CustomersFrame(df0) ==
    LET df1 == DropDuplicates(df0, "customer_id")
        \* every object column is stripped: the key, age when it holds text,
        \* and gender
        df2 == StripCol(StripCol(df1, "customer_id"), "age")
        dfg == IF HasCol(df2, "gender")
               THEN GenderCol(StripCol(df2, "gender"))
               ELSE df2
        df3 == ToNumericCol(dfg, "age")
        df4 == SelectSeq(df3, LAMBDA r : AgeOk(r.age))
    IN  FillNa(df4, Unknown)

AccountsFrame(df0) ==
    LET df1 == DropDuplicates(df0, "customer_id")
        df2 == ToNumericCol(df1, "account_balance")
        df3 == SelectSeq(df2, LAMBDA r : BalanceOk(r.account_balance))
    IN  FillNaCol(df3, "account_balance", Num(0))

TransactionsFrame(df0) ==
    LET df1 == DropDuplicates(df0, "txn_id")
        df2 == ToNumericCol(df1, "amount")
        df3 == SelectSeq(df2, LAMBDA r : AmountOk(r.amount))
    IN  FillNa(df3, Unknown)

LoansFrame(df0) ==
    LET df1 == DropDuplicates(df0, "loan_id")
        df2 == ToNumericCol(df1, "loan_amount")
        df3 == IF HasCol(df2, "loan_status")
               THEN TitleCol(df2, "loan_status")
               ELSE df2
    IN  FillNa(df3, Unknown)

CreditCardsFrame(df0) ==
    LET df1 == DropDuplicates(df0, "card_id")
        df2 == ToNumericCol(df1, "credit_limit")
        \* the dtype of card_number was fixed when the file was loaded
        df3 == MaskCol(df2, "card_number", FloatColumn(df0, "card_number"))
    IN  FillNa(df3, Unknown)

BranchesFrame(df0) ==
    LET df1 == DropDuplicates(df0, "branch_id")
        df2 == ToNumericCol(df1, "performance_rating")
        df3 == ClipCol(df2, "performance_rating", 1, 5)
    IN  FillNa(df3, Unknown)

SupportTicketsFrame(df0) ==
    LET df1 == DropDuplicates(df0, "ticket_id")
        df2 == DateCol(DateCol(df1, "date_opened"), "date_closed")
        df3 == [i \in 1..Len(df2) |->
                   [c \in DOMAIN df2[i] \cup {"resolution_days"} |->
                       IF c = "resolution_days"
                       THEN ResolutionDays(df2[i].date_opened, df2[i].date_closed)
                       ELSE df2[i][c]]]
        df4 == ToNumericCol(df3, "customer_rating")
        df5 == ClipCol(df4, "customer_rating", 1, 5)
    IN  FillNa(df5, Unknown)

-----------------------------------------------------------------------------
(* The raw inputs the model draws from *)

\* key texts: plain, and one that differs from a plain one by a leading blank
Keys == {Str(<<"a">>), Str(<<" ", "a">>), Str(<<"b">>)}

\* a number cell that does not parse
BadText == Str(<<"x">>)

\* raw dates of a ticket: missing, unparseable, or a timestamp
DateCells == {Null, BadText, Ts(1, 23), Ts(2, 1)}

\* a card number with separators and six digits
CardLong == Str(<<"9", "1", "-", "2", "3", "4", "5">>)

\* a card number with fewer than four digits
CardShort == Str(<<"1", "2">>)

\* Each entity's rows carry its key column and the columns its row rules
\* read.  A ticket varies either its dates or its rating, a card either its
\* limit or its number (as text, as a JSON number, or missing).
RowSet(e) ==
    CASE e = "customers" ->
           [customer_id : Keys,
            age : {Num(17), Num(18), Num(100), Num(101), Null, BadText}]
      [] e = "accounts" ->
           [customer_id : Keys,
            account_balance : {Num(-50), Num(0), Num(100), Null, BadText}]
      [] e = "transactions" ->
           [txn_id : Keys, amount : {Num(-5), Num(0), Num(20), Null, BadText},
            customer_id : {Str(<<"a">>)}]
           \cup
           [txn_id : {Str(<<"a">>), Str(<<"b">>)}, amount : {Num(20)},
            customer_id : {Str(<<"b">>), Null}]
      [] e = "loans" ->
           [loan_id : Keys, loan_amount : {Num(10), Num(20), BadText}]
      [] e = "credit_cards" ->
           [card_id : Keys, credit_limit : {Num(10), Num(20), BadText},
            card_number : {CardLong}]
           \cup
           [card_id : {Str(<<"a">>), Str(<<"b">>)}, credit_limit : {Num(10)},
            card_number : {CardShort, Num(12345), Null}]
      [] e = "branches" ->
           [branch_id : Keys,
            performance_rating : {Num(0), Num(1), Num(3), Num(5), Num(6), Null, BadText}]
      [] e = "support_tickets" ->
           [ticket_id : {Str(<<"a">>), Str(<<"b">>)},
            date_opened : DateCells, date_closed : DateCells,
            customer_rating : {Num(3)}]
           \cup
           [ticket_id : {Str(<<"a">>)},
            date_opened : {Ts(1, 23)}, date_closed : {Ts(2, 1)},
            customer_rating : {Num(0), Num(6), Null, BadText}]

\* the gender column of customers.csv: synonyms in either case, another
\* value, and an empty cell
Genders ==
    {Str(<<"m">>), Str(<<"M", "a", "l", "e">>), Str(<<"f">>),
     Str(<<"F", "E", "M", "A", "L", "E">>), Str(<<"x">>), Null}

\* customers.csv with the gender column
GenderRows ==
    [customer_id : {Str(<<"a">>), Str(<<"b">>)}, age : {Num(18)},
     gender : Genders]

\* the loan_status values of loans.json: a text, a padded text, the empty
\* text, a blank text, and null
Statuses ==
    {Str(<<"p">>), Str(<<" ", "p">>), Str(<<>>), Str(<<" ">>), Null}

\* loans.json with the loan_status member
StatusRows ==
    [loan_id : {Str(<<"a">>), Str(<<"b">>)}, loan_amount : {Num(10)},
     loan_status : Statuses]

\* transactions.csv without the customer_id column
NoCustomerRows == [txn_id : Keys, amount : {Num(20)}]

\* transactions.csv with a column the store does not declare
ExtraColumnRows ==
    [txn_id : Keys, amount : {Num(20)}, customer_id : {Str(<<"a">>)},
     notes : {Str(<<"n">>), Null}]

\* the column sets a raw file of the entity may have, each as its rows
Shapes(e) ==
    CASE e = "transactions" -> {RowSet(e), NoCustomerRows, ExtraColumnRows}
      [] e = "customers" -> {RowSet(e), GenderRows}
      [] e = "loans" -> {RowSet(e), StatusRows}
      [] OTHER -> {RowSet(e)}

\* a well-formed one-row file of each entity
PlainRow(e) ==
    CASE e = "customers" -> [customer_id |-> Str(<<"a">>), age |-> Num(18)]
      [] e = "accounts" -> [customer_id |-> Str(<<"a">>), account_balance |-> Num(100)]
      [] e = "transactions" ->
           [txn_id |-> Str(<<"a">>), amount |-> Num(20),
            customer_id |-> Str(<<"a">>)]
      [] e = "loans" -> [loan_id |-> Str(<<"a">>), loan_amount |-> Num(10)]
      [] e = "credit_cards" -> [card_id |-> Str(<<"a">>), credit_limit |-> Num(10),
            card_number |-> CardLong]
      [] e = "branches" -> [branch_id |-> Str(<<"a">>), performance_rating |-> Num(3)]
      [] e = "support_tickets" ->
           [ticket_id |-> Str(<<"a">>), date_opened |-> Ts(1, 23),
            date_closed |-> Ts(2, 1), customer_rating |-> Num(3)]

PlainFile(e) == RowsFile(<<PlainRow(e)>>)

\* every entity's file is absent, unparseable or plain
CoarseDirs ==
    {[e \in Entities |->
         CASE pick[e] = "missing" -> Missing
           [] pick[e] = "garbled" -> Garbled
           [] OTHER -> PlainFile(e)] :
       pick \in [Entities -> {"missing", "garbled", "plain"}]}

\* one entity's file holds the given rows, the others are plain
FocusDir(f, rows) ==
    [e \in Entities |-> IF e = f THEN RowsFile(rows) ELSE PlainFile(e)]

-----------------------------------------------------------------------------
(* The store (scripts/load_database.py) *)

\* the tables, in the order of the load_table calls
LoadCalls ==
    <<"customers", "accounts", "transactions", "loans",
      "credit_cards", "branches", "support_tickets">>

Tables == {LoadCalls[i] : i \in 1..Len(LoadCalls)}

\* the columns of each load_table call's list that the files here can carry
Declared(t) ==
    CASE t = "customers" -> {"customer_id", "gender", "age"}
      [] t = "accounts" -> {"customer_id", "account_balance"}
      [] t = "transactions" -> {"txn_id", "customer_id", "amount"}
      [] t = "loans" -> {"loan_id", "loan_amount", "loan_status"}
      [] t = "credit_cards" -> {"card_id", "card_number", "credit_limit"}
      [] t = "branches" -> {"branch_id", "performance_rating"}
      [] OTHER -> {"ticket_id", "date_opened", "date_closed",
                   "customer_rating", "resolution_days"}

\* the tables whose customer_id is a foreign key to customers
References == {"accounts", "transactions"}

NoTable == [k |-> "none"]

Table(rows) == [k |-> "table", rows |-> rows]

\* the file sqlite3.connect creates when there is none
FreshStore == [t \in Tables |-> NoTable]

NoCounts == [k |-> "none"]

\* the load script is not looked at
LoadIdle ==
    /\ db = FreshStore
    /\ lpc = 1
    /\ lstatus = "idle"
    /\ counts = NoCounts

NoCall == [k |-> "none"]

\* no query helper is called
HelpersIdle == conns = 0 /\ returned = NoCall

\* the browser sessions of the dashboard
Sessions == {1, 2}

\* st.session_state without the key sim_customer
NoCustomer == [k |-> "none"]

NoMessage == [k |-> "none"]

\* a session that has fetched no account and shows no message
FreshSession == [sim_customer |-> NoCustomer, shown |-> NoMessage]

\* the simulation page is not looked at
SimIdle == session = [s \in Sessions |-> FreshSession]

-----------------------------------------------------------------------------
(* load_json *)

(* A JSON text is a sequence of tokens: the structural characters, the two  *)
(* line breaks, and the members of the i-th object as the one token that    *)
(* is the digit i.                                                          *)

NewLines == {"\n", "\r\n"}

\* the members of the i-th object
Members(i) == DigitChar[i + 1]

AllMembers == {Members(i) : i \in 1..MaxObjects}

\* one object, on one line or on three
Obj(i, pretty) ==
    IF pretty THEN <<"{", "\n", Members(i), "\n", "}">>
    ELSE <<"{", Members(i), "}">>

\* the first n objects, sep[i] between object i and object i + 1
RECURSIVE Join(_, _, _)
Join(n, pretty, sep) ==
    IF n = 1 THEN Obj(1, pretty[1])
    ELSE Join(n - 1, pretty, sep) \o sep[n - 1] \o Obj(n, pretty[n])

\* the files load_json is tried on
JsonText(n, pretty, sep, wrapped, newline) ==
    (IF wrapped THEN <<"[">> ELSE <<>>)
        \o Join(n, pretty, sep)
        \o (IF wrapped THEN <<"]">> ELSE <<>>)
        \o (IF newline THEN <<"\n">> ELSE <<>>)

JsonError == [k |-> "error"]

\* a parsed value: a dict (its members) or a list of dicts
Parsed(v, islist) == [k |-> "ok", list |-> islist, value |-> v]

\* json.loads of the tokens between two brackets: objects and commas in turn
Elements(w) ==
    IF w = <<>> THEN Parsed(<<>>, TRUE)
    ELSE IF /\ Len(w) % 4 = 3
            /\ \A j \in 1..Len(w) :
                  CASE j % 4 = 1 -> w[j] = "{"
                    [] j % 4 = 2 -> w[j] \in AllMembers
                    [] j % 4 = 3 -> w[j] = "}"
                    [] OTHER -> w[j] = ","
         THEN Parsed([j \in 1..((Len(w) + 1) \div 4) |-> w[4 * j - 2]], TRUE)
         ELSE JsonError

\* json.loads: one value, white space allowed between its tokens.  An object
\* is returned as its members, an array as the sequence of its objects.
JsonLoads(text) ==
    LET w == SelectSeq(text, LAMBDA c : c \notin NewLines)
    IN  IF Len(w) = 3 /\ w[1] = "{" /\ w[2] \in AllMembers /\ w[3] = "}"
        THEN Parsed(w[2], FALSE)
        ELSE IF Len(w) >= 2 /\ w[1] = "[" /\ w[Len(w)] = "]"
             THEN Elements(SubSeq(w, 2, Len(w) - 1))
             ELSE JsonError

\* str.strip of the text read from the file
RECURSIVE StripText(_)
StripText(text) ==
    IF text # <<>> /\ text[Len(text)] \in NewLines
    THEN StripText(SubSeq(text, 1, Len(text) - 1))
    ELSE IF text # <<>> /\ text[1] \in NewLines
         THEN StripText(Tail(text))
         ELSE text

\* str.splitlines
RECURSIVE SplitLines(_)
SplitLines(text) ==
    IF \A j \in 1..Len(text) : text[j] \notin NewLines
    THEN (IF text = <<>> THEN <<>> ELSE <<text>>)
    ELSE LET j == CHOOSE j \in 1..Len(text) :
                      /\ text[j] \in NewLines
                      /\ \A h \in 1..(j - 1) : text[h] \notin NewLines
         IN  <<SubSeq(text, 1, j - 1)>> \o SplitLines(SubSeq(text, j + 1, Len(text)))

\* str.replace("}" + nl + "{", "},{")
Replace(text, nl) ==
    [j \in 1..Len(text) |->
        IF /\ text[j] = nl
           /\ j > 1 /\ j < Len(text)
           /\ text[j - 1] = "}" /\ text[j + 1] = "{"
        THEN ","
        ELSE text[j]]

DataFrame(records) == [k |-> "frame", records |-> records]

\* the third strategy: wrap the objects as an array; its JSONDecodeError is
\* not caught
WrapAsArray(text) ==
    LET fixed == <<"[">> \o Replace(Replace(text, "\n"), "\r\n") \o <<"]">>
        data == JsonLoads(fixed)
    IN  IF data = JsonError THEN JsonError ELSE DataFrame(data.value)

\* the second strategy: one JSON value per non-empty line
PerLine(text) ==
    LET lines == SelectSeq(SplitLines(text), LAMBDA l : StripText(l) # <<>>)
    IN  IF \E j \in 1..Len(lines) : JsonLoads(lines[j]) = JsonError
        THEN WrapAsArray(text)
        ELSE DataFrame([j \in 1..Len(lines) |-> JsonLoads(lines[j]).value])

\* load_json on a file that holds the given text
LoadJson(filetext) ==
    LET text == StripText(filetext)
        data == JsonLoads(text)
    IN  IF data = JsonError THEN PerLine(text)
        ELSE IF data.list THEN DataFrame(data.value)
        ELSE DataFrame(<<data.value>>)

NotCalled == [k |-> "none"]

\* no load_json call is looked at
JsonIdle == content = <<>> /\ loaded = NotCalled

-----------------------------------------------------------------------------
(* The script *)

\* The raw directory is a coarse one, or one entity's file is any file of at
\* most MaxRows rows.  The cleaned directory starts empty.
Init ==
    /\ \/ raw \in CoarseDirs
       \/ \E f \in Entities : \E S \in Shapes(f) : \E k \in 0..MaxRows :
             \E rows \in [1..k -> S] : raw = FocusDir(f, rows)
    /\ cleaned = [e \in Entities |-> NoFile]
    /\ saved_index = [e \in Entities |-> <<>>]
    /\ skipped = {}
    /\ pc = 1
    /\ status = "running"
    /\ JsonIdle
    /\ LoadIdle
    /\ HelpersIdle
    /\ SimIdle

\* the mutant of Save: to_csv appends to the file it finds
SaveAppend(e, df) ==
    /\ cleaned' = [cleaned EXCEPT ![e] =
                      IF IsRows(@) THEN RowsFile(@.rows \o CsvRows(df))
                      ELSE RowsFile(CsvRows(df))]
    /\ saved_index' = [saved_index EXCEPT ![e] = IndexOf(df)]
    /\ pc' = pc + 1
    /\ UNCHANGED <<raw, skipped, status>>
    /\ UNCHANGED <<jsonvars, simvars, loadvars, helpervars>>

\* save_csv(df, ...) and the return to the main block
Save(e, df) ==
    /\ cleaned' = [cleaned EXCEPT ![e] = RowsFile(CsvRows(df))]
    /\ saved_index' = [saved_index EXCEPT ![e] = IndexOf(df)]
    /\ pc' = pc + 1
    /\ UNCHANGED <<raw, skipped, status>>
    /\ UNCHANGED <<jsonvars, simvars, loadvars, helpervars>>

\* an exception nobody catches: the interpreter exits
Crash ==
    /\ status' = "crashed"
    /\ UNCHANGED <<raw, cleaned, saved_index, skipped, pc>>
    /\ UNCHANGED <<jsonvars, simvars, loadvars, helpervars>>

\* print("... not found - skipping"); return
Skip(e) ==
    /\ skipped' = skipped \cup {e}
    /\ pc' = pc + 1
    /\ UNCHANGED <<raw, cleaned, saved_index, status>>
    /\ UNCHANGED <<jsonvars, simvars, loadvars, helpervars>>

At(e) == status = "running" /\ pc <= Len(Steps) /\ Steps[pc] = e

\* df["gender"].str raises AttributeError when read_csv gave the column a
\* numeric dtype, as it does when every cell of the column is empty
NoStrAccessor(rows) ==
    rows # <<>> /\ "gender" \in DOMAIN rows[1] /\ ~ObjectColumn(rows, "gender")

\* The first three cleaners call load_csv on a file that may not exist:
\* pd.read_csv raises FileNotFoundError on a missing file and a parser error
\* on an unparseable one, and neither is caught; nor is the AttributeError
\* of the .str accessor in clean_customers.  The other four test
\* os.path.exists first and skip a missing file; load_json lets the
\* JSONDecodeError of its last strategy through on an unparseable one.

clean_customers ==
    /\ At("customers")
    /\ IF IsRows(raw["customers"]) /\ ~NoStrAccessor(raw["customers"].rows)
       THEN Save("customers", CustomersFrame(Frame(raw["customers"].rows)))
       ELSE Crash

clean_accounts ==
    /\ At("accounts")
    /\ IF IsRows(raw["accounts"])
       THEN Save("accounts", AccountsFrame(Frame(raw["accounts"].rows)))
       ELSE Crash

clean_transactions ==
    /\ At("transactions")
    /\ IF IsRows(raw["transactions"])
       THEN Save("transactions", TransactionsFrame(Frame(raw["transactions"].rows)))
       ELSE Crash

clean_loans ==
    /\ At("loans")
    /\ CASE raw["loans"] = Missing -> Skip("loans")
         [] raw["loans"] = Garbled -> Crash
         [] OTHER -> Save("loans", LoansFrame(Frame(raw["loans"].rows)))

clean_credit_cards ==
    /\ At("credit_cards")
    /\ CASE raw["credit_cards"] = Missing -> Skip("credit_cards")
         [] raw["credit_cards"] = Garbled -> Crash
         [] OTHER -> Save("credit_cards",
                          CreditCardsFrame(Frame(raw["credit_cards"].rows)))

clean_branches ==
    /\ At("branches")
    /\ CASE raw["branches"] = Missing -> Skip("branches")
         [] raw["branches"] = Garbled -> Crash
         [] OTHER -> Save("branches", BranchesFrame(Frame(raw["branches"].rows)))

clean_support_tickets ==
    /\ At("support_tickets")
    /\ CASE raw["support_tickets"] = Missing -> Skip("support_tickets")
         [] raw["support_tickets"] = Garbled -> Crash
         [] OTHER -> Save("support_tickets",
                          SupportTicketsFrame(Frame(raw["support_tickets"].rows)))

\* the closing banner of the main block
Finish ==
    /\ status = "running"
    /\ pc = Len(Steps) + 1
    /\ status' = "done"
    /\ UNCHANGED <<raw, cleaned, saved_index, skipped, pc>>
    /\ UNCHANGED <<jsonvars, simvars, loadvars, helpervars>>

Next ==
    \/ clean_customers
    \/ clean_accounts
    \/ clean_transactions
    \/ clean_loans
    \/ clean_credit_cards
    \/ clean_branches
    \/ clean_support_tickets
    \/ Finish

Spec == Init /\ [][Next]_vars

\* the frame the cleaner of entity e saves for the given raw rows
CleanedFrame(e, rows) ==
    CASE e = "customers" -> CustomersFrame(Frame(rows))
      [] e = "accounts" -> AccountsFrame(Frame(rows))
      [] e = "transactions" -> TransactionsFrame(Frame(rows))
      [] e = "loans" -> LoansFrame(Frame(rows))
      [] e = "credit_cards" -> CreditCardsFrame(Frame(rows))
      [] e = "branches" -> BranchesFrame(Frame(rows))
      [] OTHER -> SupportTicketsFrame(Frame(rows))

\* the rows a run of the script writes for entity e from the given raw rows
CleanedRows(e, rows) == CsvRows(CleanedFrame(e, rows))

\* the cleaned file an earlier run wrote from a raw file that held one other
\* row
EarlierFile(e) ==
    RowsFile(CleanedRows(e, <<[PlainRow(e) EXCEPT ![KeyCol[e]] = Str(<<"z">>)]>>))

\* the cleaned directories an earlier run left: empty, a file of every
\* entity, or a file of one entity
EarlierDirs ==
    {[e \in Entities |-> NoFile], [e \in Entities |-> EarlierFile(e)]}
        \cup {[e \in Entities |-> IF e = f THEN EarlierFile(e) ELSE NoFile] :
                 f \in Entities}

\* the script is started on a coarse raw directory and a cleaned directory
\* that an earlier run over another raw directory left
InitEarlier ==
    /\ raw \in CoarseDirs
    /\ cleaned \in EarlierDirs
    /\ saved_index = [e \in Entities |-> <<>>]
    /\ skipped = {}
    /\ pc = 1
    /\ status = "running"
    /\ JsonIdle
    /\ LoadIdle
    /\ HelpersIdle
    /\ SimIdle

SpecEarlier == InitEarlier /\ [][Next]_vars

-----------------------------------------------------------------------------
(* The end of a cleaning run *)

\* the cleaner of e raises on the file it finds
Raises(dir, e) ==
    CASE e = "customers" -> ~IsRows(dir[e]) \/ NoStrAccessor(dir[e].rows)
      [] e \in {"accounts", "transactions"} -> ~IsRows(dir[e])
      [] OTHER -> dir[e] = Garbled

\* the first call of the main block that raises, 0 if none does
CrashAt(dir) ==
    IF \E i \in 1..Len(Steps) : Raises(dir, Steps[i])
    THEN CHOOSE i \in 1..Len(Steps) :
             /\ Raises(dir, Steps[i])
             /\ \A j \in 1..(i - 1) : ~Raises(dir, Steps[j])
    ELSE 0

\* the cleaner of e was called and returned, in a run whose first raising
\* call is the given one
Returned(crash, e) ==
    \E i \in 1..Len(Steps) : Steps[i] = e /\ (crash = 0 \/ i < crash)

\* the state in which the cleaning script ends on the raw directory
EndOfRun ==
    \E crash \in {CrashAt(raw)} :
        \E frames \in {[e \in Entities |->
                          IF Returned(crash, e) /\ IsRows(raw[e])
                          THEN CleanedFrame(e, raw[e].rows)
                          ELSE <<>>]} :
            /\ cleaned = [e \in Entities |->
                             IF Returned(crash, e) /\ IsRows(raw[e])
                             THEN RowsFile(CsvRows(frames[e]))
                             ELSE NoFile]
            /\ saved_index = [e \in Entities |-> IndexOf(frames[e])]
            /\ skipped = {e \in Entities : Returned(crash, e) /\ raw[e] = Missing}
            /\ pc = IF crash = 0 THEN Len(Steps) + 1 ELSE crash
            /\ status = IF crash = 0 THEN "done" ELSE "crashed"

\* the script is started again on the same raw directory; the cleaned
\* directory is as the earlier run left it
Rerun ==
    /\ status \in {"crashed", "done"}
    /\ pc' = 1
    /\ status' = "running"
    /\ skipped' = {}
    /\ UNCHANGED <<raw, cleaned, saved_index>>
    /\ UNCHANGED <<jsonvars, simvars, loadvars, helpervars>>

NextRerun == Next \/ Rerun

\* a run of the script has ended on a raw directory as in Init
InitRerun ==
    /\ \/ raw \in CoarseDirs
       \/ \E f \in Entities : \E S \in Shapes(f) : \E k \in 0..MaxRows :
             \E rows \in [1..k -> S] : raw = FocusDir(f, rows)
    /\ EndOfRun
    /\ JsonIdle
    /\ LoadIdle
    /\ HelpersIdle
    /\ SimIdle

SpecRerun == InitRerun /\ [][NextRerun]_vars

-----------------------------------------------------------------------------
(* load_database.py *)

\* pd.read_csv of a cleaned file: text and numbers as written, an empty cell
\* as NaN
ReadCsv(file) == file.rows

\* the mutant of ProjectFrame: rows without a value for a declared column are
\* dropped
ProjectFrameComplete(t, df) ==
    SelectSeq([i \in 1..Len(df) |->
                  [c \in Declared(t) |->
                      IF c \in DOMAIN df[i] THEN df[i][c] ELSE Null]],
              LAMBDA r : \A c \in Declared(t) : r[c] # Null)

\* df[[c for c in required_cols if c in df.columns]] as the rows to_sql
\* inserts: a declared column the file lacks is left NULL
ProjectFrame(t, df) ==
    [i \in 1..Len(df) |->
        [c \in Declared(t) |-> IF c \in DOMAIN df[i] THEN df[i][c] ELSE Null]]

\* PRIMARY KEY: no two rows of the table share the key
PrimaryKeyOk(t, rows) ==
    \A i \in 1..Len(rows) : \A j \in 1..Len(rows) :
        rows[i][KeyCol[t]] = rows[j][KeyCol[t]] => i = j

\* FOREIGN KEY (customer_id) REFERENCES customers(customer_id), enforced
\* under PRAGMA foreign_keys = ON; a NULL reference is not checked
ForeignKeyOk(t, rows, store) ==
    t \in References =>
        \A i \in 1..Len(rows) :
            rows[i].customer_id # Null =>
                \E j \in 1..Len(store["customers"].rows) :
                    store["customers"].rows[j].customer_id = rows[i].customer_id

\* the INSERT of to_sql(if_exists="append") raises no IntegrityError
Accepts(t, rows, store) ==
    /\ PrimaryKeyOk(t, store[t].rows \o rows)
    /\ ForeignKeyOk(t, rows, store)

\* the mutant of Dropped: the customers table is not dropped
DroppedButCustomers(store) ==
    [t \in Tables |-> IF t = "customers" THEN store[t] ELSE NoTable]

\* for t in TABLES: DROP TABLE IF EXISTS
Dropped(store) == [t \in Tables |-> NoTable]

\* CREATE TABLE IF NOT EXISTS, for the seven tables
Created(store) ==
    [t \in Tables |-> IF store[t] = NoTable THEN Table(<<>>) ELSE store[t]]

\* the store an earlier load and the dashboard left: a row in every table
\* that no cleaned file holds
EarlierStore ==
    [t \in Tables |-> Table(ProjectFrame(t, EarlierFile(t).rows))]

\* the load script is started when a cleaning run has ended on a raw
\* directory that is coarse or has any file of one of the three tables the
\* constraints are about; the store is new or left by an earlier load
InitLoad ==
    /\ \/ raw \in CoarseDirs
       \/ \E f \in {"customers", "accounts", "transactions"} :
             \E S \in Shapes(f) : \E k \in 0..MaxRows :
                \E rows \in [1..k -> S] : raw = FocusDir(f, rows)
    /\ EndOfRun
    /\ JsonIdle
    /\ db \in {FreshStore, EarlierStore}
    /\ lpc = 1
    /\ lstatus = "running"
    /\ counts = NoCounts
    /\ HelpersIdle
    /\ SimIdle

\* connect, PRAGMA foreign_keys = ON, drop the tables, commit
drop_tables ==
    /\ lstatus = "running"
    /\ lpc = 1
    /\ db' = Dropped(db)
    /\ lpc' = 2
    /\ UNCHANGED <<lstatus, counts, cleanvars, jsonvars, simvars, helpervars>>

\* executescript(CREATE TABLE ...), commit
create_tables ==
    /\ lstatus = "running"
    /\ lpc = 2
    /\ db' = Created(db)
    /\ lpc' = 3
    /\ UNCHANGED <<lstatus, counts, cleanvars, jsonvars, simvars, helpervars>>

\* the seven load_table calls: a missing file is skipped; the IntegrityError
\* of to_sql is caught nowhere and ends the script, the failed INSERT rolled
\* back
load_table ==
    /\ lstatus = "running"
    /\ lpc \in 3..(Len(LoadCalls) + 2)
    /\ LET t == LoadCalls[lpc - 2]
       IN  IF cleaned[t] = NoFile
           THEN /\ lpc' = lpc + 1
                /\ UNCHANGED <<db, lstatus>>
           ELSE LET rows == ProjectFrame(t, ReadCsv(cleaned[t]))
                IN  IF Accepts(t, rows, db)
                    THEN /\ db' = [db EXCEPT ![t] = Table(@.rows \o rows)]
                         /\ lpc' = lpc + 1
                         /\ UNCHANGED lstatus
                    ELSE /\ lstatus' = "crashed"
                         /\ UNCHANGED <<db, lpc>>
    /\ UNCHANGED <<counts, cleanvars, jsonvars, simvars, helpervars>>

\* commit, the row count verification, close
verify_counts ==
    /\ lstatus = "running"
    /\ lpc = Len(LoadCalls) + 3
    /\ counts' = [t \in Tables |-> Len(db[t].rows)]
    /\ lstatus' = "done"
    /\ UNCHANGED <<db, lpc, cleanvars, jsonvars, simvars, helpervars>>

\* the load script is started again on the same cleaned directory
Reload ==
    /\ lstatus \in {"crashed", "done"}
    /\ lpc' = 1
    /\ lstatus' = "running"
    /\ counts' = NoCounts
    /\ returned' = NoCall
    /\ UNCHANGED <<db, conns, cleanvars, jsonvars, simvars>>

\* SQLite's resolution_days > 0: text sorts above every number, and a
\* comparison with NULL is not true
GreaterThanZero(c) ==
    CASE c.t = "num" -> c.v > 0
      [] c.t = "null" -> FALSE
      [] OTHER -> TRUE

\* the value AVG and SUM take for a cell: text that is no number counts 0
Numeric(c) == IF c.t = "num" THEN c.v ELSE 0

RECURSIVE SumDays(_)
SumDays(rows) ==
    IF rows = <<>> THEN 0
    ELSE Numeric(rows[1].resolution_days) + SumDays(Tail(rows))

\* MAX(resolution_days): the greatest cell, text above every number
MaxDays(rows) ==
    CHOOSE c \in {rows[i].resolution_days : i \in 1..Len(rows)} :
        \A i \in 1..Len(rows) :
            LET d == rows[i].resolution_days
            IN  \/ c.t # "num"
                \/ d.t = "num" /\ d.v <= c.v

\* Q14 over the tickets, which all have the one issue_category NULL here: no
\* row when no ticket passes the WHERE clause, else the row of that
\* category; AVG is given as the sum and the count it divides
Report14(store) ==
    LET q == SelectSeq(store["support_tickets"].rows,
                       LAMBDA r : /\ r.resolution_days # Null
                                  /\ GreaterThanZero(r.resolution_days))
    IN  IF q = <<>> THEN <<>>
        ELSE <<[total_tickets |-> Len(q),
                sum_resolution_days |-> SumDays(q),
                max_resolution_days |-> MaxDays(q)]>>

\* queries.run_query(Q14) while no load is running: connect, read, close.
\* When read_sql_query raises (no such table) the call is left by the
\* exception with its connection open.
report_14 ==
    /\ lstatus \in {"idle", "crashed", "done"}
    /\ IF db["support_tickets"] = NoTable
       THEN /\ conns < MaxConns
            /\ conns' = conns + 1
            /\ returned' = [k |-> "raised"]
       ELSE /\ returned' = [k |-> "report14", rows |-> Report14(db)]
            /\ UNCHANGED conns
    /\ UNCHANGED <<cleanvars, jsonvars, simvars, loadvars>>

NextLoad ==
    \/ drop_tables
    \/ create_tables
    \/ load_table
    \/ verify_counts
    \/ Reload
    \/ report_14

SpecLoad == InitLoad /\ [][NextLoad]_vars

\* the load script and report 14 after a cleaning run on a raw directory with
\* any tickets file
InitReport ==
    /\ \E k \in 0..MaxRows :
          \E rows \in [1..k -> RowSet("support_tickets")] :
             raw = FocusDir("support_tickets", rows)
    /\ EndOfRun
    /\ JsonIdle
    /\ db = FreshStore
    /\ lpc = 1
    /\ lstatus = "running"
    /\ counts = NoCounts
    /\ HelpersIdle
    /\ SimIdle

SpecReport == InitReport /\ [][NextLoad]_vars

\* the cleaning script is not looked at
CleanIdle ==
    /\ raw = [e \in Entities |-> Missing]
    /\ cleaned = [e \in Entities |-> NoFile]
    /\ saved_index = [e \in Entities |-> <<>>]
    /\ skipped = {}
    /\ pc = 1
    /\ status = "running"

-----------------------------------------------------------------------------
(* The query helpers of the dashboard (app.py) *)

\* the store a load of the plain cleaned files leaves
PlainStore ==
    [t \in Tables |-> Table(ProjectFrame(t, CleanedRows(t, <<PlainRow(t)>>)))]

\* the customer ids typed into the accounts forms
TypedIds == {Str(<<"a">>), Str(<<"b">>), Str(<<"c">>)}

EmptyFrame == [k |-> "frame", rows |-> <<>>]

\* The dashboard is opened on a store that no load has filled yet, or on the
\* store of a load of the plain files.
InitHelpers ==
    /\ CleanIdle
    /\ JsonIdle
    /\ db \in {FreshStore, PlainStore}
    /\ lpc = 1
    /\ lstatus = "idle"
    /\ counts = NoCounts
    /\ HelpersIdle
    /\ SimIdle

\* what the except branch of a dashboard helper leaves: conn.close() was not
\* reached, so the connection is open until the interpreter finalizes the
\* object, which it may do as the call returns or later
LeftOpen ==
    /\ conns < MaxConns
    /\ conns' \in {conns, conns + 1}

\* run_query("SELECT * FROM accounts WHERE customer_id=%s", (cid,))
run_query ==
    \E cid \in TypedIds :
        /\ IF db["accounts"] = NoTable
           THEN /\ LeftOpen
                /\ returned' = EmptyFrame
           ELSE /\ returned' = [k |-> "frame",
                                rows |-> SelectSeq(db["accounts"].rows,
                                             LAMBDA r : r.customer_id = cid)]
                /\ UNCHANGED conns
        /\ UNCHANGED <<cleanvars, jsonvars, simvars, loadvars>>

\* run_action("INSERT INTO accounts ...", (cid, balance, now)) and
\* run_action("DELETE FROM accounts WHERE customer_id=%s", (cid,)); the
\* connection of the dashboard does not enforce foreign keys
run_action ==
    \E cid \in TypedIds : \E insert \in BOOLEAN :
        LET row == [customer_id |-> cid, account_balance |-> Num(1000)]
        IN  /\ IF \/ db["accounts"] = NoTable
                  \/ insert /\ ~PrimaryKeyOk("accounts", db["accounts"].rows \o <<row>>)
               THEN /\ LeftOpen
                    /\ returned' = [k |-> "bool", v |-> FALSE]
                    /\ UNCHANGED db
               ELSE /\ db' = [db EXCEPT !["accounts"] =
                                 Table(IF insert THEN @.rows \o <<row>>
                                       ELSE SelectSeq(@.rows,
                                                LAMBDA r : r.customer_id # cid))]
                    /\ returned' = [k |-> "bool", v |-> TRUE]
                    /\ UNCHANGED conns
            /\ UNCHANGED <<lpc, lstatus, counts, cleanvars, jsonvars, simvars>>

\* the interpreter finalizes a connection object nothing refers to
finalize ==
    /\ conns > 0
    /\ conns' = conns - 1
    /\ UNCHANGED <<returned, cleanvars, jsonvars, simvars, loadvars>>

NextHelpers ==
    \/ run_query
    \/ run_action
    \/ report_14
    \/ finalize

SpecHelpers == InitHelpers /\ [][NextHelpers]_vars

-----------------------------------------------------------------------------
(* The reports (scripts/queries.py) *)

(* A result is a set of rows; a report is the set of the sequences it may   *)
(* return, since SQL leaves the order of rows that ORDER BY ties open.  A   *)
(* column the model's store does not carry is NULL in every row.  Averages  *)
(* and shares are given in hundredths.  No LIMIT is below the number of     *)
(* rows a store here holds.                                                 *)

Cell(r, col) == IF col \in DOMAIN r THEN r[col] ELSE Null

StoreRows(store, t) == {store[t].rows[i] : i \in 1..Len(store[t].rows)}

\* LOWER(col) = word, or LOWER(col) IN words: not true of NULL
LowerIn(c, words) ==
    c.t = "str" /\ [i \in 1..Len(c.s) |-> LowerChar(c.s[i])] \in words

\* SQLite's col > n and col >= n: text sorts above every number, and a
\* comparison with NULL is not true
GreaterThan(c, n) ==
    CASE c.t = "num" -> c.v > n
      [] c.t = "null" -> FALSE
      [] OTHER -> TRUE

\* ROUND(x, 2) of the quotient a / b, in hundredths, halves away from zero
Round2(a, b) ==
    IF a >= 0 THEN (200 * a + b) \div (2 * b)
    ELSE 0 - ((200 * (0 - a) + b) \div (2 * b))

\* the mutant of Joined: a LEFT JOIN, which keeps a customer without a
\* matching row
LeftJoined(store, t) ==
    {<<c, r>> \in StoreRows(store, "customers") \X StoreRows(store, t) :
        c.customer_id # Null /\ c.customer_id = r.customer_id}
    \cup {<<c, [x \in Declared(t) |-> Null]>> :
             c \in {d \in StoreRows(store, "customers") :
                       \A r \in StoreRows(store, t) :
                           d.customer_id = Null \/ d.customer_id # r.customer_id}}

\* customers c JOIN t ON c.customer_id = t.customer_id
Joined(store, t) ==
    {<<c, r>> \in StoreRows(store, "customers") \X StoreRows(store, t) :
        c.customer_id # Null /\ c.customer_id = r.customer_id}

\* the sum AVG and SUM take over the balances of joined rows
SumBalance(J) ==
    LET RECURSIVE Sum(_)
        Sum(S) == IF S = {} THEN 0
                  ELSE LET x == CHOOSE x \in S : TRUE
                       IN  Numeric(x[2].account_balance) + Sum(S \ {x})
    IN  Sum(J)

\* Q1 before ORDER BY: a row for every city of a joined customer
Q1(store) ==
    LET J == Joined(store, "accounts")
    IN  {[city |-> g,
          total_customers |-> Cardinality({x \in J : Cell(x[1], "city") = g}),
          avg_balance |->
              LET G == {x \in J : /\ Cell(x[1], "city") = g
                                  /\ x[2].account_balance # Null}
              IN  IF G = {} THEN Null
                  ELSE Num(Round2(SumBalance(G), Cardinality(G)))] :
            g \in {Cell(x[1], "city") : x \in J}}

Q2(store) ==
    LET J == Joined(store, "accounts")
    IN  {[account_type |-> g,
          total_customers |->
              Cardinality({x \in J : Cell(x[1], "account_type") = g})] :
            g \in {Cell(x[1], "account_type") : x \in J}}

Q3(store) ==
    {[customer_id |-> x[1].customer_id, account_balance |-> x[2].account_balance] :
        x \in Joined(store, "accounts")}

\* Q4: the dates of the model are days of 2023
Q4(store) ==
    {[customer_id |-> x[1].customer_id, account_balance |-> x[2].account_balance] :
        x \in {y \in Joined(store, "accounts") :
                  /\ Cell(y[1], "join_date").t = "date"
                  /\ GreaterThan(y[2].account_balance, 100000)}}

Q5(store) ==
    LET T == StoreRows(store, "transactions")
    IN  {[transaction_type |-> g,
          total_transactions |-> Cardinality({r \in T : Cell(r, "txn_type") = g})] :
            g \in {Cell(r, "txn_type") : r \in T}}

Q6(store) ==
    LET T == {r \in StoreRows(store, "transactions") :
                 LowerIn(Cell(r, "status"), {<<"f", "a", "i", "l", "e", "d">>})}
    IN  {[transaction_type |-> g,
          failed_transactions |-> Cardinality({r \in T : Cell(r, "txn_type") = g})] :
            g \in {Cell(r, "txn_type") : r \in T}}

\* the mutant of Q7: no GROUP BY, so that the aggregates give one row
\* whatever the table holds
Q7Ungrouped(store) ==
    LET T == StoreRows(store, "transactions")
        total == Cardinality(T)
    IN  {[transaction_type |-> Null,
          total_transactions |-> total,
          pct_share |-> IF total = 0 THEN Null ELSE Num(Round2(100 * total, total))]}

\* Q7: the share divides by the row count of the table; SQLite gives NULL for
\* a division by zero
Q7(store) ==
    LET T == StoreRows(store, "transactions")
        total == Cardinality(T)
    IN  {[transaction_type |-> g,
          total_transactions |-> Cardinality({r \in T : Cell(r, "txn_type") = g}),
          pct_share |->
              IF total = 0 THEN Null
              ELSE Num(Round2(100 * Cardinality({r \in T : Cell(r, "txn_type") = g}),
                              total))] :
            g \in {Cell(r, "txn_type") : r \in T}}

Q8(store) ==
    LET J == {x \in Joined(store, "transactions") : GreaterThan(x[2].amount, 20000)}
    IN  {row \in {[customer_id |-> g,
                   high_value_count |->
                       Cardinality({x \in J : x[2].customer_id = g})] :
                     g \in {x[2].customer_id : x \in J}} :
            row.high_value_count >= 5}

Q9(store) ==
    LET L == StoreRows(store, "loans")
    IN  {[loan_type |-> g,
          total_loans |-> Cardinality({r \in L : Cell(r, "loan_type") = g})] :
            g \in {Cell(r, "loan_type") : r \in L}}

Q10(store) ==
    LET L == {r \in StoreRows(store, "loans") :
                 LowerIn(r.loan_status,
                         {<<"a", "c", "t", "i", "v", "e">>,
                          <<"a", "p", "p", "r", "o", "v", "e", "d">>})}
    IN  {row \in {[customer_id |-> g,
                   no_of_active_loans |->
                       Cardinality({r \in L : /\ Cell(r, "customer_id") = g
                                              /\ r.loan_id # Null})] :
                     g \in {Cell(r, "customer_id") : r \in L}} :
            row.no_of_active_loans > 1}

Q11(store) ==
    LET L == {r \in StoreRows(store, "loans") :
                 /\ r.loan_status.t = "str"
                 /\ ~LowerIn(r.loan_status, {<<"c", "l", "o", "s", "e", "d">>})}
    IN  {[customer_id |-> g,
          number_of_loans |->
              Cardinality({r \in L : /\ Cell(r, "customer_id") = g
                                     /\ r.loan_id # Null})] :
            g \in {Cell(r, "customer_id") : r \in L}}

Q12(store) ==
    LET L == StoreRows(store, "loans")
    IN  {[branch |-> g,
          total_loans |-> Cardinality({r \in L : /\ Cell(r, "branch") = g
                                                /\ r.loan_id # Null})] :
            g \in {Cell(r, "branch") : r \in L}}

\* the CASE expression of Q13; an age that is no number in 18..60 falls to
\* the ELSE branch
AgeGroup(c) ==
    CASE Between(c, 18, 25) -> "18-25"
      [] Between(c, 26, 35) -> "26-35"
      [] Between(c, 36, 45) -> "36-45"
      [] Between(c, 46, 60) -> "46-60"
      [] OTHER -> "60+"

Q13(store) ==
    LET C == StoreRows(store, "customers")
        total == Cardinality(C)
    IN  {[age_group |-> g,
          total_customers |-> Cardinality({r \in C : AgeGroup(r.age) = g}),
          pct_share |->
              IF total = 0 THEN Null
              ELSE Num(Round2(100 * Cardinality({r \in C : AgeGroup(r.age) = g}),
                              total))] :
            g \in {AgeGroup(r.age) : r \in C}}

Q15(store) ==
    LET S == {r \in StoreRows(store, "support_tickets") :
                 /\ LowerIn(Cell(r, "priority"),
                            {<<"c", "r", "i", "t", "i", "c", "a", "l">>})
                 /\ GreaterThan(r.customer_rating, 3)
                 /\ LowerIn(Cell(r, "status"),
                            {<<"r", "e", "s", "o", "l", "v", "e", "d">>,
                             <<"c", "l", "o", "s", "e", "d">>})}
    IN  {[support_agent |-> g,
          resolved_critical |->
              Cardinality({r \in S : Cell(r, "support_agent") = g})] :
            g \in {Cell(r, "support_agent") : r \in S}}

\* ALL_QUERIES but Q14, which report_14 runs
Reports == (1..15) \ {14}

\* the rows of a report
ResultOf(q, store) ==
    CASE q = 1 -> Q1(store)
      [] q = 2 -> Q2(store)
      [] q = 3 -> Q3(store)
      [] q = 4 -> Q4(store)
      [] q = 5 -> Q5(store)
      [] q = 6 -> Q6(store)
      [] q = 7 -> Q7(store)
      [] q = 8 -> Q8(store)
      [] q = 9 -> Q9(store)
      [] q = 10 -> Q10(store)
      [] q = 11 -> Q11(store)
      [] q = 12 -> Q12(store)
      [] q = 13 -> Q13(store)
      [] OTHER -> Q15(store)

\* the tables a report reads
ReadTables(q) ==
    CASE q \in 1..4 -> {"customers", "accounts"}
      [] q \in 5..7 -> {"transactions"}
      [] q = 8 -> {"transactions", "customers"}
      [] q \in 9..12 -> {"loans"}
      [] q = 13 -> {"customers"}
      [] OTHER -> {"support_tickets"}

\* the sequences that hold every row of the result once; for Q1 those in
\* which total_customers never rises (ORDER BY total_customers DESC)
Orderings(q, S) ==
    {f \in [1..Cardinality(S) -> S] :
        /\ \A i, j \in 1..Cardinality(S) : f[i] = f[j] => i = j
        /\ q = 1 => \A i, j \in 1..Cardinality(S) :
                        i < j => f[i].total_customers >= f[j].total_customers}

\* the customer ids of the stores the reports are run on
ReportIds == {Str(<<"a">>), Str(<<"b">>), Str(<<"c">>)}

Absent == [t |-> "absent"]

\* the customers table of ids a, b, c: each id is absent or has a city (or
\* NULL for it); the age is a's 18, b's 30 or c's 61
CustomerTable(city) ==
    LET row(id, age) == [customer_id |-> Str(<<id>>), gender |-> Null,
                         age |-> Num(age), city |-> city[Str(<<id>>)]]
    IN  SelectSeq(<<row("a", 18), row("b", 30), row("c", 61)>>,
                  LAMBDA r : r.city # Absent)

\* the accounts table: each id is absent or has a balance
AccountTable(balance) ==
    SelectSeq([i \in 1..4 |->
                  LET id == Str(<<<<"a", "b", "c", "d">>[i]>>)
                  IN  [customer_id |-> id, account_balance |-> balance[id]]],
              LAMBDA r : r.account_balance # Absent)

\* the balances an account of the id may have; d has no customers row
BalancesOf(id) ==
    CASE id = Str(<<"a">>) -> {Absent, Num(1000), Num(2000)}
      [] id = Str(<<"b">>) -> {Absent, Num(2000)}
      [] id = Str(<<"c">>) -> {Absent, Num(1000), Num(3000)}
      [] OTHER -> {Absent, Num(1000)}

\* a report is run through queries.run_query: connect, read, close.  When
\* read_sql_query raises (no such table) the call is left by the exception
\* with its connection open.
report ==
    \E q \in Reports :
        /\ lstatus \in {"idle", "crashed", "done"}
        /\ IF \E t \in ReadTables(q) : db[t] = NoTable
           THEN /\ conns < MaxConns
                /\ conns' = conns + 1
                /\ returned' = [k |-> "raised"]
           ELSE /\ \E rows \in Orderings(q, ResultOf(q, db)) :
                      returned' = [k |-> "report", q |-> q, rows |-> rows]
                /\ UNCHANGED conns
        /\ UNCHANGED <<cleanvars, jsonvars, simvars, loadvars>>

\* the store the load of no cleaned file leaves: the seven tables, empty
EmptyStore == Created(FreshStore)

\* The reports are run on a store with no table, on one with customers and
\* accounts of the ids a to d, the other tables empty or as the load of the
\* plain files leaves them, and on the store of the plain files.
InitReports ==
    /\ CleanIdle
    /\ JsonIdle
    /\ \/ db \in {FreshStore, PlainStore}
       \/ \E city \in [ReportIds -> {Absent, Null, Str(<<"P">>), Str(<<"X">>)}] :
             \E a \in BalancesOf(Str(<<"a">>)), b \in BalancesOf(Str(<<"b">>)),
                c \in BalancesOf(Str(<<"c">>)), d \in BalancesOf(Str(<<"d">>)) :
                \E rest \in {EmptyStore, PlainStore} :
                   db = [rest EXCEPT
                            !["customers"] = Table(CustomerTable(city)),
                            !["accounts"] =
                                Table(AccountTable(
                                    (Str(<<"a">>) :> a) @@ (Str(<<"b">>) :> b)
                                    @@ (Str(<<"c">>) :> c) @@ (Str(<<"d">>) :> d)))]
    /\ lpc = 1
    /\ lstatus = "idle"
    /\ counts = NoCounts
    /\ HelpersIdle
    /\ SimIdle

NextReports ==
    \/ report
    \/ report_14
    \/ finalize

SpecReports == InitReports /\ [][NextReports]_vars

-----------------------------------------------------------------------------
(* The dashboard (app.py): CRUD forms and the credit / debit simulation *)

(* Every statement goes through run_action or run_query, which open their   *)
(* own connection and commit at once; the connection does not enforce       *)
(* foreign keys (get_conn sets no PRAGMA).  The stores here have the seven  *)
(* tables, so a statement fails on a primary key only.  What the helpers    *)
(* return to a form is used up by the form: it is the message the form      *)
(* shows, and is not kept in returned.                                      *)

\* the minimum balance of the simulation page
MinBalance == 1000

\* the amounts typed into the simulation page
Amounts == {500, 1000}

\* the values of f"T{random.randint(10001, 99999)}" that are looked at: the
\* id of the loaded transaction and one that no loaded transaction has
TxnIds == {Str(<<"a">>), Str(<<"t">>)}

\* the balances typed into the Update Account Balance form
TypedBalances == {1000, 3000}

\* the customer ids typed into the customer, balance and simulation forms
FormIds == {Str(<<"a">>), Str(<<"b">>)}

\* the store of a load of the plain files, the account with balance 2000
LoadedStore ==
    [PlainStore EXCEPT
        !["accounts"] =
            Table(ProjectFrame("accounts",
                      CleanedRows("accounts",
                          <<[customer_id |-> Str(<<"a">>),
                             account_balance |-> Num(2000)]>>)))]

\* the dashboard is opened in two sessions on the store a load has left
InitDashboard ==
    /\ CleanIdle
    /\ JsonIdle
    /\ db = LoadedStore
    /\ lpc = 1
    /\ lstatus = "idle"
    /\ counts = NoCounts
    /\ HelpersIdle
    /\ SimIdle

\* UPDATE accounts SET account_balance=new_bal WHERE customer_id=cid
UpdateBalance(store, cid, new_bal) ==
    [store EXCEPT !["accounts"] =
        Table([i \in 1..Len(@.rows) |->
                  IF @.rows[i].customer_id = cid
                  THEN [@.rows[i] EXCEPT !.account_balance = Num(new_bal)]
                  ELSE @.rows[i]])]

\* the row of INSERT INTO transactions (txn_id, customer_id, ..., amount, ...)
TxnRow(txn_id, cid, amount) ==
    [txn_id |-> txn_id, customer_id |-> cid, amount |-> Num(amount)]

\* the mutant of WithdrawAllowed: the balance may fall to zero
WithdrawAllowedToZero(current_bal, amount) == ~(current_bal - amount < 0)

\* the withdrawal is not blocked: not (current_bal - amount < 1000)
WithdrawAllowed(current_bal, amount) == ~(current_bal - amount < MinBalance)

\* Fetch Account: the join of customers and accounts for the typed id; the
\* first row is kept in st.session_state, or the key is deleted
fetch_account ==
    \E s \in Sessions : \E cid \in FormIds :
        LET df == {x \in Joined(db, "accounts") : x[1].customer_id = cid}
        IN  /\ session' = [session EXCEPT ![s] =
                  IF df = {}
                  THEN [sim_customer |-> NoCustomer, shown |-> [k |-> "not found"]]
                  ELSE LET x == CHOOSE x \in df : TRUE
                       IN  [sim_customer |->
                                [k |-> "customer",
                                 customer_id |-> x[1].customer_id,
                                 account_balance |-> x[2].account_balance],
                            shown |-> [k |-> "found"]]]
            /\ UNCHANGED <<helpervars, cleanvars, jsonvars, loadvars>>

\* Confirm Transaction: the new balance is computed from the balance kept in
\* st.session_state; the UPDATE and the INSERT are two run_action calls, each
\* committed on its own, whose results are not looked at; the success line
\* is shown and the kept balance replaced whatever they returned
confirm_transaction ==
    \E s \in Sessions : \E deposit \in BOOLEAN :
        \E amount \in Amounts : \E txn_id \in TxnIds :
            LET c == session[s].sim_customer
                current_bal == c.account_balance.v
                new_bal == IF deposit THEN current_bal + amount
                           ELSE current_bal - amount
                updated == UpdateBalance(db, c.customer_id, new_bal)
                row == TxnRow(txn_id, c.customer_id, amount)
                inserted == PrimaryKeyOk("transactions",
                                         db["transactions"].rows \o <<row>>)
            IN  /\ c # NoCustomer
                /\ new_bal <= MaxBalance
                /\ IF ~deposit /\ ~WithdrawAllowed(current_bal, amount)
                   THEN /\ session' = [session EXCEPT
                                          ![s].shown = [k |-> "blocked"]]
                        /\ UNCHANGED <<db, conns>>
                   ELSE /\ db' = IF inserted
                                 THEN [updated EXCEPT !["transactions"] =
                                          Table(@.rows \o <<row>>)]
                                 ELSE updated
                        /\ IF inserted THEN UNCHANGED conns ELSE LeftOpen
                        /\ session' = [session EXCEPT
                              ![s].shown = [k |-> IF deposit THEN "deposited"
                                                  ELSE "withdrawn",
                                            amount |-> amount],
                              ![s].sim_customer.account_balance = Num(new_bal)]
                /\ UNCHANGED <<returned, lpc, lstatus, counts, cleanvars, jsonvars>>

\* Add Customer: INSERT INTO customers
add_customer ==
    \E cid \in FormIds :
        LET row == [customer_id |-> cid, gender |-> Str(<<"M">>), age |-> Num(30)]
        IN  /\ IF PrimaryKeyOk("customers", db["customers"].rows \o <<row>>)
               THEN /\ db' = [db EXCEPT !["customers"] = Table(@.rows \o <<row>>)]
                    /\ UNCHANGED conns
               ELSE /\ LeftOpen
                    /\ UNCHANGED db
            /\ UNCHANGED <<returned, lpc, lstatus, counts, cleanvars, jsonvars,
                           simvars>>

\* Delete Customer: a customer of the select box is chosen and the delete
\* confirmed; DELETE FROM customers WHERE customer_id=cid
delete_customer ==
    \E i \in 1..Len(db["customers"].rows) :
        /\ db' = [db EXCEPT !["customers"] =
                     Table(SelectSeq(@.rows,
                               LAMBDA r : r.customer_id
                                              # db["customers"].rows[i].customer_id))]
        /\ UNCHANGED <<helpervars, lpc, lstatus, counts, cleanvars, jsonvars,
                       simvars>>

\* Update Account Balance: the form is shown when the account is found
update_balance ==
    \E cid \in FormIds : \E new_bal \in TypedBalances :
        /\ \E i \in 1..Len(db["accounts"].rows) :
              db["accounts"].rows[i].customer_id = cid
        /\ db' = UpdateBalance(db, cid, new_bal)
        /\ UNCHANGED <<helpervars, lpc, lstatus, counts, cleanvars, jsonvars,
                       simvars>>

NextDashboard ==
    \/ fetch_account
    \/ confirm_transaction
    \/ add_customer
    \/ delete_customer
    \/ update_balance
    \/ finalize

SpecDashboard == InitDashboard /\ [][NextDashboard]_vars

\* load_json is called on a file of at most MaxObjects objects
InitJson ==
    /\ \E n \in 1..MaxObjects :
          \E pretty \in [1..n -> BOOLEAN] :
             \E sep \in [1..(n - 1) -> {<<>>, <<"\n">>, <<"\r\n">>, <<",">>}] :
                \E wrapped \in BOOLEAN, newline \in BOOLEAN :
                   content = JsonText(n, pretty, sep, wrapped, newline)
    /\ loaded = NotCalled
    /\ CleanIdle
    /\ LoadIdle
    /\ HelpersIdle
    /\ SimIdle

load_json ==
    /\ loaded = NotCalled
    /\ loaded' = LoadJson(content)
    /\ UNCHANGED <<content, cleanvars, loadvars, helpervars, simvars>>

SpecJson == InitJson /\ [][load_json]_vars

-----------------------------------------------------------------------------
(* Properties *)

Written(e) == IsRows(cleaned[e])

Out(e) == cleaned[e].rows

In(e) == raw[e].rows

Ended == status \in {"crashed", "done"}

\* the raw row at position n is the first one of its file with its key value
FirstWithKey(e, n) ==
    \A m \in 1..Len(In(e)) :
        In(e)[m][KeyCol[e]] = In(e)[n][KeyCol[e]] => m >= n

\* the raw position (from 1) of the i-th cleaned row of e
Source(e, i) == saved_index[e][i] + 1

\* the cleaned row o carries the key and the parseable values of the raw row r
RowCarries(e, r, o) ==
    CASE e = "customers" ->
           /\ o.customer_id = StrStrip(r.customer_id)
           /\ o.age = r.age
      [] e = "accounts" ->
           /\ o.customer_id = r.customer_id
           /\ o.account_balance = r.account_balance
      [] e = "transactions" -> o.txn_id = r.txn_id /\ o.amount = r.amount
      [] e = "loans" ->
           /\ o.loan_id = r.loan_id
           /\ IsNum(r.loan_amount) => o.loan_amount = r.loan_amount
      [] e = "credit_cards" ->
           /\ o.card_id = r.card_id
           /\ IsNum(r.credit_limit) => o.credit_limit = r.credit_limit
      [] e = "branches" ->
           /\ o.branch_id = r.branch_id
           /\ Between(r.performance_rating, 1, 5) =>
                 o.performance_rating = r.performance_rating
      [] e = "support_tickets" ->
           /\ o.ticket_id = r.ticket_id
           /\ r.date_opened.t = "ts" => o.date_opened = DateText(r.date_opened.day)
           /\ r.date_closed.t = "ts" => o.date_closed = DateText(r.date_closed.day)
           /\ Between(r.customer_rating, 1, 5) =>
                 o.customer_rating = r.customer_rating

\* C1: in every cleaned file no two rows have the same primary-key value.
C1_KeysUnique ==
    \A e \in Entities :
        Written(e) =>
            \A i, j \in 1..Len(Out(e)) :
                i # j => Out(e)[i][KeyCol[e]] # Out(e)[j][KeyCol[e]]

\* C2: every cleaned row comes from the first raw row that has its key value
\* (as drop_duplicates compares it) and carries that row's field values, no
\* later row with that key reaches the output, and the cleaned rows are in
\* the order of their raw rows.
C2_FirstOccurrenceWins ==
    \A e \in Entities :
        Written(e) =>
            /\ Len(saved_index[e]) = Len(Out(e))
            /\ \A i \in 1..Len(Out(e)) :
                  /\ Source(e, i) \in 1..Len(In(e))
                  /\ FirstWithKey(e, Source(e, i))
                  /\ RowCarries(e, In(e)[Source(e, i)], Out(e)[i])
            /\ \A i, j \in 1..Len(Out(e)) : i < j => Source(e, i) < Source(e, j)

\* two raw rows share a key and differ in a value, and the cleaned file holds
\* exactly the first of them
C2_Witness ==
    \E e \in Entities :
        /\ Written(e)
        /\ Len(In(e)) = 2
        /\ In(e)[1][KeyCol[e]] = In(e)[2][KeyCol[e]]
        /\ In(e)[1] # In(e)[2]
        /\ saved_index[e] = <<0>>

\* C3: once the script has ended on a raw directory with exactly one
\* unparseable file (and no missing one), every entity whose raw file is
\* valid has been cleaned and written.
C3_UnparseableConfined ==
    (/\ Ended
     /\ Cardinality({e \in Entities : raw[e] = Garbled}) = 1
     /\ \A e \in Entities : raw[e] # Missing)
    => \A e \in Entities : IsRows(raw[e]) => Written(e)

\* C4: once the script has ended on a raw directory with missing files (and
\* no unparseable one), every missing entity was logged as skipped and every
\* entity whose raw file is present has been cleaned and written.
C4_MissingSkipped ==
    (/\ Ended
     /\ \A e \in Entities : raw[e] # Garbled)
    => \A e \in Entities :
           /\ raw[e] = Missing => e \in skipped
           /\ IsRows(raw[e]) => Written(e)

\* C5: an account row (the first of its key) whose balance is missing or
\* unparseable is in the cleaned accounts with balance 0.
C5_MissingBalanceKept ==
    Written("accounts") =>
        \A n \in 1..Len(In("accounts")) :
            (/\ FirstWithKey("accounts", n)
             /\ ToNumeric(In("accounts")[n].account_balance) = Null)
            => \E i \in 1..Len(Out("accounts")) :
                   /\ Source("accounts", i) = n
                   /\ Out("accounts")[i].account_balance = Num(0)

\* C6: every cleaned account has a number >= 0 as balance, and no raw account
\* with a negative balance is the source of a cleaned row.
C6_BalanceNonNegative ==
    Written("accounts") =>
        /\ \A i \in 1..Len(Out("accounts")) :
              /\ IsNum(Out("accounts")[i].account_balance)
              /\ Out("accounts")[i].account_balance.v >= 0
        /\ \A n \in 1..Len(In("accounts")) :
              (/\ IsNum(In("accounts")[n].account_balance)
               /\ In("accounts")[n].account_balance.v < 0)
              => \A i \in 1..Len(Out("accounts")) : Source("accounts", i) # n

\* a raw account with balance -50 was cleaned away and another one was kept
C6_Witness ==
    /\ Written("accounts")
    /\ \E n \in 1..Len(In("accounts")) :
          In("accounts")[n].account_balance = Num(-50)
    /\ Len(Out("accounts")) = 1

\* C7: every cleaned transaction has a number > 0 as amount, and no raw
\* transaction with a zero or negative amount is the source of a cleaned row.
C7_AmountPositive ==
    Written("transactions") =>
        /\ \A i \in 1..Len(Out("transactions")) :
              /\ IsNum(Out("transactions")[i].amount)
              /\ Out("transactions")[i].amount.v > 0
        /\ \A n \in 1..Len(In("transactions")) :
              (/\ IsNum(In("transactions")[n].amount)
               /\ In("transactions")[n].amount.v <= 0)
              => \A i \in 1..Len(Out("transactions")) :
                     Source("transactions", i) # n

\* a raw transaction with amount 0 was cleaned away and another one was kept
C7_Witness ==
    /\ Written("transactions")
    /\ \E n \in 1..Len(In("transactions")) :
          In("transactions")[n].amount = Num(0)
    /\ Len(Out("transactions")) = 1

\* C8: every cleaned customer has a number in 18..100 as age, and no raw
\* customer whose age is missing, unparseable or outside 18..100 is the
\* source of a cleaned row.
C8_AgeInRange ==
    Written("customers") =>
        /\ \A i \in 1..Len(Out("customers")) :
              /\ IsNum(Out("customers")[i].age)
              /\ Out("customers")[i].age.v \in 18..100
        /\ \A n \in 1..Len(In("customers")) :
              ~(/\ IsNum(In("customers")[n].age)
                /\ In("customers")[n].age.v \in 18..100)
              => \A i \in 1..Len(Out("customers")) : Source("customers", i) # n

\* a raw customer of age 17 was cleaned away and one of age 18 was kept
C8_Witness ==
    /\ Written("customers")
    /\ \E n \in 1..Len(In("customers")) : In("customers")[n].age = Num(17)
    /\ Len(Out("customers")) = 1
    /\ Out("customers")[1].age = Num(18)

\* the first raw rows of their key: the rows drop_duplicates keeps
FirstRows(e) == {n \in 1..Len(In(e)) : FirstWithKey(e, n)}

\* C9: every cleaned branch has performance_rating in 1..5 and every cleaned
\* ticket has customer_rating in 1..5, whatever the raw rating was, and no
\* row is dropped for its rating.
C9_RatingsInRange ==
    /\ Written("branches") =>
          /\ \A i \in 1..Len(Out("branches")) :
                Between(Out("branches")[i].performance_rating, 1, 5)
          /\ Len(Out("branches")) = Cardinality(FirstRows("branches"))
    /\ Written("support_tickets") =>
          /\ \A i \in 1..Len(Out("support_tickets")) :
                Between(Out("support_tickets")[i].customer_rating, 1, 5)
          /\ Len(Out("support_tickets")) = Cardinality(FirstRows("support_tickets"))

Max(a, b) == IF a >= b THEN a ELSE b

\* C10: a cleaned ticket whose two dates parsed has
\* resolution_days = max(0, date_closed - date_opened) in days; a cleaned
\* ticket with a missing or unparseable raw date has the placeholder.
C10_ResolutionDays ==
    Written("support_tickets") =>
        \A i \in 1..Len(Out("support_tickets")) :
            LET o == Out("support_tickets")[i]
                r == In("support_tickets")[Source("support_tickets", i)]
            IN  /\ IF o.date_opened.t = "date" /\ o.date_closed.t = "date"
                   THEN o.resolution_days =
                            Num(Max(0, o.date_closed.day - o.date_opened.day))
                   ELSE o.resolution_days = Unknown
                /\ (r.date_opened.t # "ts" \/ r.date_closed.t # "ts")
                      => ~IsNum(o.resolution_days)
                /\ (r.date_opened.t = "ts" /\ r.date_closed.t = "ts")
                      => IsNum(o.resolution_days) /\ o.resolution_days.v >= 0

\* one cleaned ticket was closed the day before it was opened and has 0 days,
\* another has no parseable closing date and has the placeholder
C10_Witness ==
    /\ Written("support_tickets")
    /\ \E i, j \in 1..Len(Out("support_tickets")) :
          LET o == Out("support_tickets")[i]
              p == Out("support_tickets")[j]
          IN  /\ o.date_opened = DateText(2)
              /\ o.date_closed = DateText(1)
              /\ o.resolution_days = Num(0)
              /\ p.date_closed = Unknown
              /\ p.resolution_days = Unknown

\* the digit characters of a raw card number
RawDigits(c) ==
    CASE c.t = "str" -> OnlyDigits(c.s)
      [] c.t = "num" -> DecimalText(c.v)
      [] OTHER -> <<>>

\* C11: every cleaned card has as card_number "**** **** **** " and the last
\* four digit characters of its raw value when that has at least four digits,
\* and "****" otherwise.
C11_MaskLastFour ==
    Written("credit_cards") =>
        \A i \in 1..Len(Out("credit_cards")) :
            LET d == RawDigits(In("credit_cards")[Source("credit_cards", i)].card_number)
            IN  Out("credit_cards")[i].card_number =
                    IF Len(d) >= 4
                    THEN Str(MaskPrefix \o SubSeq(d, Len(d) - 3, Len(d)))
                    ELSE Str(Stars)

\* n objects on one line each with nothing between them
Concatenated(n) ==
    JsonText(n, [i \in 1..n |-> FALSE], [i \in 1..(n - 1) |-> <<>>], FALSE, FALSE)

\* n objects on one line each with a line break between them
LineBroken(n) ==
    JsonText(n, [i \in 1..n |-> FALSE], [i \in 1..(n - 1) |-> <<"\n">>], FALSE, FALSE)

\* C12: a file of objects concatenated with no separator, or separated only
\* by a line break, is loaded as one record per object, in file order.
C12_ConcatenatedObjects ==
    \A n \in 1..MaxObjects :
        (loaded # NotCalled /\ content \in {Concatenated(n), LineBroken(n)})
            => loaded = DataFrame([i \in 1..n |-> Members(i)])

\* C13: a cleaner run again on the same raw file writes the cleaned file it
\* wrote before: no step changes the content of a cleaned file once written.
C13_RerunSameOutput ==
    [][\A e \in Entities : Written(e) => cleaned'[e] = cleaned[e]]_vars

\* a later run has called the first cleaner over the cleaned files of an
\* earlier complete run
C13_Witness ==
    /\ status = "running"
    /\ pc = 2
    /\ \A e \in Entities : Written(e) /\ Len(Out(e)) >= 1

\* C14: after a run of the script every entity's cleaned output is derived
\* from the raw directory of that run alone: the file the cleaner writes from
\* the raw file, and no file where there is no raw file, whatever the cleaned
\* directory held before.
C14_RunReplacesOutput ==
    status = "done" =>
        \A e \in Entities :
            cleaned[e] = IF IsRows(raw[e])
                         THEN RowsFile(CleanedRows(e, raw[e].rows))
                         ELSE NoFile

\* a cleaning run ends in the state EndOfRun gives for its raw directory
RunEndsInEndOfRun == Ended => EndOfRun

\* the store rejects the rows of the cleaned file of t
Rejected(t) ==
    /\ IsRows(cleaned[t])
    /\ db[t] # NoTable /\ db["customers"] # NoTable
    /\ ~Accepts(t, ProjectFrame(t, ReadCsv(cleaned[t])), [db EXCEPT ![t] = Table(<<>>)])

\* C15: a table whose load fails on a key constraint does not end the load
\* run: the run is never dead of the exception, and when it is done the
\* failed table is counted with zero rows.
C15_LoadFailureContained ==
    \A t \in Tables :
        (lstatus \in {"crashed", "done"} /\ Rejected(t)) =>
            /\ lstatus = "done"
            /\ counts[t] = 0

\* the number of rows of the cleaned file of t, 0 when there is none
CleanedCount(t) == IF IsRows(cleaned[t]) THEN Len(cleaned[t].rows) ELSE 0

FileRows(t) ==
    IF IsRows(cleaned[t]) THEN ProjectFrame(t, ReadCsv(cleaned[t])) ELSE <<>>

\* C17: once a load run has recreated the schema, the store holds the seven
\* tables and each holds no rows but those of the current cleaned file; when
\* the run is done each table holds exactly those rows, so that a second
\* load of the same files leaves the store of the first.
C17_StoreRebuilt ==
    (lstatus \in {"running", "crashed", "done"} /\ lpc >= 3) =>
        \A t \in Tables :
            /\ db[t] # NoTable
            /\ db[t].rows \in {<<>>, FileRows(t)}
            /\ lstatus = "done" => db[t].rows = FileRows(t)

\* a load run is done with rows in every table
C17_Witness ==
    /\ lstatus = "done"
    /\ \A t \in Tables : Len(db[t].rows) >= 1

\* the load_table call of t has returned in this run
Called(t) ==
    /\ lstatus \in {"running", "crashed", "done"}
    /\ \E i \in 1..Len(LoadCalls) : LoadCalls[i] = t /\ lpc > i + 2

\* the cleaned file of t has rows and lacks a declared column
LacksColumn(t) ==
    /\ IsRows(cleaned[t])
    /\ cleaned[t].rows # <<>>
    /\ \E c \in Declared(t) : c \notin DOMAIN cleaned[t].rows[1]

\* C18: a loaded table has the declared columns and no other, and the load
\* of a cleaned file that lacks a declared column fails: no row of such a
\* file is in the store.
C18_SchemaProjection ==
    \A t \in Tables :
        /\ db[t] # NoTable =>
              \A i \in 1..Len(db[t].rows) : DOMAIN db[t].rows[i] = Declared(t)
        /\ (Called(t) /\ LacksColumn(t)) => db[t].rows = <<>>

\* the loaded tickets with a number of days above zero
RealDays ==
    SelectSeq(db["support_tickets"].rows,
              LAMBDA r : r.resolution_days.t = "num" /\ r.resolution_days.v > 0)

\* C20: report 14 aggregates the tickets with a resolution time above zero
\* and no other: a ticket whose resolution_days is missing, the cleaner's
\* placeholder, or zero is in no count, average or maximum.
C20_Report14RealDays ==
    returned.k = "report14" =>
        returned.rows =
            IF RealDays = <<>> THEN <<>>
            ELSE <<[total_tickets |-> Len(RealDays),
                    sum_resolution_days |-> SumDays(RealDays),
                    max_resolution_days |->
                        Num(CHOOSE m \in {RealDays[i].resolution_days.v :
                                             i \in 1..Len(RealDays)} :
                                \A i \in 1..Len(RealDays) :
                                    RealDays[i].resolution_days.v <= m)]>>

\* C19: no connection a query helper opened is open once the call is over.
C19_ConnectionsClosed == conns = 0

\* C23: no text field of a cleaned row of any entity begins or ends with
\* white space.
C23_TextTrimmed ==
    \A e \in Entities :
        Written(e) =>
            \A i \in 1..Len(Out(e)) : \A c \in DOMAIN Out(e)[i] :
                Out(e)[i][c].t = "str" => Strip(Out(e)[i][c].s) = Out(e)[i][c].s

\* the entities whose cleaner fills every remaining null
Filled == Entities \ {"accounts"}

\* C24: no field of a cleaned customer, transaction, loan, card, branch or
\* ticket row is null.
C24_NoNullLeft ==
    \A e \in Filled :
        Written(e) =>
            \A i \in 1..Len(Out(e)) : \A c \in DOMAIN Out(e)[i] :
                Out(e)[i][c] # Null

\* the cell is the given upper-case word in some letter case, white space
\* around it aside
InAnyCase(c, word) ==
    /\ c.t = "str"
    /\ Len(Strip(c.s)) = Len(word)
    /\ \A i \in 1..Len(word) : UpperChar(Strip(c.s)[i]) = word[i]

\* C25: every cleaned customer has gender M, F or Other: M when the raw
\* gender is M or MALE in any letter case, F when it is F or FEMALE, and
\* Other for every other raw value and for a missing one.
C25_GenderMapped ==
    Written("customers") =>
        \A i \in 1..Len(Out("customers")) :
            "gender" \in DOMAIN Out("customers")[i] =>
                LET g == In("customers")[Source("customers", i)].gender
                IN  Out("customers")[i].gender =
                        IF InAnyCase(g, <<"M">>) \/ InAnyCase(g, <<"M", "A", "L", "E">>)
                        THEN Str(<<"M">>)
                        ELSE IF \/ InAnyCase(g, <<"F">>)
                                \/ InAnyCase(g, <<"F", "E", "M", "A", "L", "E">>)
                             THEN Str(<<"F">>)
                             ELSE Str(<<"O", "t", "h", "e", "r">>)

\* a customer with gender "Male" was cleaned to M and one with no gender to
\* Other
C25_Witness ==
    /\ Written("customers")
    /\ Len(Out("customers")) = 2
    /\ In("customers")[1].gender = Str(<<"M", "a", "l", "e">>)
    /\ In("customers")[2].gender = Null
    /\ Out("customers")[1].gender = Str(<<"M">>)
    /\ Out("customers")[2].gender = Str(<<"O", "t", "h", "e", "r">>)

\* the entities with a row-drop rule
Ruled == {"customers", "accounts", "transactions"}

\* the raw row passes the drop rule of its entity
PassesRule(e, r) ==
    CASE e = "customers" -> IsNum(r.age) /\ r.age.v \in 18..100
      [] e = "accounts" -> IsNum(r.account_balance) /\ r.account_balance.v >= 0
      [] OTHER -> IsNum(r.amount) /\ r.amount.v > 0

\* the raw row fails the drop rule as the claim lists it
FailsRule(e, r) ==
    CASE e = "customers" -> IsNum(r.age) /\ r.age.v \notin 18..100
      [] e = "accounts" -> IsNum(r.account_balance) /\ r.account_balance.v < 0
      [] OTHER -> IsNum(r.amount) /\ r.amount.v <= 0

\* C27: when the first raw row of a key fails the drop rule of its entity and
\* a later raw row with the same key passes it, no cleaned row comes from a
\* raw row with that key.
C27_DedupBeforeDrop ==
    \A e \in Ruled :
        Written(e) =>
            \A m, n \in 1..Len(In(e)) :
                (/\ m < n
                 /\ FirstWithKey(e, m)
                 /\ In(e)[n][KeyCol[e]] = In(e)[m][KeyCol[e]]
                 /\ FailsRule(e, In(e)[m])
                 /\ PassesRule(e, In(e)[n]))
                => \A i \in 1..Len(Out(e)) :
                       In(e)[Source(e, i)][KeyCol[e]] # In(e)[m][KeyCol[e]]

\* customers.csv held a customer of age 17 and then the same key with age 18,
\* and the cleaned file has no row
C27_Witness ==
    /\ Written("customers")
    /\ Len(In("customers")) = 2
    /\ In("customers")[1].customer_id = In("customers")[2].customer_id
    /\ In("customers")[1].age = Num(17)
    /\ In("customers")[2].age = Num(18)
    /\ Out("customers") = <<>>

\* the customers of the store that have an account row
WithAccount ==
    {c \in StoreRows(db, "customers") :
        \E a \in StoreRows(db, "accounts") : a.customer_id = c.customer_id}

\* the balance of the account of a customer
BalanceOf(c) ==
    (CHOOSE a \in StoreRows(db, "accounts") :
         a.customer_id = c.customer_id).account_balance.v

RECURSIVE TotalBalance(_)
TotalBalance(S) ==
    IF S = {} THEN 0
    ELSE LET c == CHOOSE c \in S : TRUE
         IN  BalanceOf(c) + TotalBalance(S \ {c})

\* C21: report 1 returns exactly one row per city of a customer with an
\* account, with the number of those customers and the mean of their
\* balances rounded to the nearest hundredth, the rows in descending order
\* of the customer count.
C21_Report1 ==
    (returned.k = "report" /\ returned.q = 1) =>
        LET rows == returned.rows
        IN  /\ {rows[i].city : i \in 1..Len(rows)}
                  = {Cell(c, "city") : c \in WithAccount}
            /\ Len(rows) = Cardinality({Cell(c, "city") : c \in WithAccount})
            /\ \A i \in 1..Len(rows) :
                  LET Of == {c \in WithAccount : Cell(c, "city") = rows[i].city}
                      n == Cardinality(Of)
                      d == 100 * TotalBalance(Of) - n * rows[i].avg_balance.v
                  IN  /\ rows[i].total_customers = n
                      /\ 2 * d <= n /\ 2 * (0 - d) <= n
            /\ \A i, j \in 1..Len(rows) :
                  i < j => rows[i].total_customers >= rows[j].total_customers

\* three customers of one city with balances 1000, 2000 and 3000, and report
\* 1 returned the one row of that city with 3 customers and mean 2000.00
C21_Witness ==
    /\ db["customers"] # NoTable /\ db["accounts"] # NoTable
    /\ Len(db["customers"].rows) = 3
    /\ \A i \in 1..3 : Cell(db["customers"].rows[i], "city") = Str(<<"P">>)
    /\ {db["accounts"].rows[i].account_balance : i \in 1..Len(db["accounts"].rows)}
          = {Num(1000), Num(2000), Num(3000)}
    /\ Len(db["accounts"].rows) = 3
    /\ returned = [k |-> "report", q |-> 1,
                   rows |-> <<[city |-> Str(<<"P">>), total_customers |-> 3,
                               avg_balance |-> Num(200000)]>>]

\* C22: a report run on a store whose seven tables exist and are empty
\* returns no row and raises no error.
C22_EmptyReports ==
    ((\A t \in Tables : db[t] = Table(<<>>)) /\ returned # NoCall) =>
        /\ returned.k \in {"report", "report14"}
        /\ returned.rows = <<>>
        /\ conns = 0

\* report 7 was run on the store of empty tables
C22_Witness ==
    /\ \A t \in Tables : db[t] = Table(<<>>)
    /\ returned.k = "report"
    /\ returned.q = 7

\* the session confirmed a deposit or a withdrawal in this step
Confirmed(s) ==
    /\ session'[s] # session[s]
    /\ session'[s].shown.k \in {"deposited", "withdrawn"}

\* the balances the store holds for the account of the customer
StoredBalances(store, cid) ==
    {a.account_balance : a \in {r \in StoreRows(store, "accounts") :
                                   r.customer_id = cid}}

\* C26: a confirmed withdrawal is applied only when the fetched balance less
\* the amount is at least 1000, and then writes that difference; a blocked
\* one changes neither the accounts nor the transactions table.
C26_MinimumBalance ==
    [][\A s \in Sessions :
          /\ (Confirmed(s) /\ session'[s].shown.k = "withdrawn") =>
                LET fetched == session[s].sim_customer.account_balance.v
                    left == fetched - session'[s].shown.amount
                IN  /\ left >= MinBalance
                    /\ \A b \in StoredBalances(db', session[s].sim_customer.customer_id) :
                          b = Num(left)
          /\ (session'[s] # session[s] /\ session'[s].shown.k = "blocked") =>
                /\ db'["accounts"] = db["accounts"]
                /\ db'["transactions"] = db["transactions"]]_vars

\* one session withdrew 1000 from the fetched 2000 and the store holds 1000;
\* the other session's withdrawal was blocked
C26_Witness ==
    /\ session[1].shown = [k |-> "withdrawn", amount |-> 1000]
    /\ session[1].sim_customer.account_balance = Num(1000)
    /\ StoredBalances(db, Str(<<"a">>)) = {Num(1000)}
    /\ session[2].shown.k = "blocked"

\* C28: every accounts.customer_id and every transactions.customer_id of the
\* store is the customer_id of a customers row.
C28_ReferencesKept ==
    \A t \in {"accounts", "transactions"} :
        \A r \in StoreRows(db, t) :
            \E c \in StoreRows(db, "customers") : c.customer_id = r.customer_id

\* C29: a confirmed deposit or withdrawal leaves the store with both the new
\* balance and the new transaction row, or with neither.
C29_BothOrNeither ==
    [][\A s \in Sessions :
          Confirmed(s) =>
              LET cid == session[s].sim_customer.customer_id
                  new_bal == session'[s].sim_customer.account_balance
                  rows == db["transactions"].rows
                  rows2 == db'["transactions"].rows
              IN  \/ /\ StoredBalances(db', cid) = {new_bal}
                     /\ Len(rows2) = Len(rows) + 1
                     /\ SubSeq(rows2, 1, Len(rows)) = rows
                     /\ rows2[Len(rows2)].customer_id = cid
                     /\ rows2[Len(rows2)].amount = Num(session'[s].shown.amount)
                  \/ /\ db'["accounts"] = db["accounts"]
                     /\ db'["transactions"] = db["transactions"]]_vars

\* C30: a confirmed deposit raises the stored balance of the account by the
\* amount and a confirmed withdrawal lowers it by the amount, whatever the
\* other session and the balance form did since the account was fetched.
C30_NoLostUpdate ==
    [][\A s \in Sessions :
          Confirmed(s) =>
              LET cid == session[s].sim_customer.customer_id
                  amount == session'[s].shown.amount
              IN  StoredBalances(db', cid) =
                      {Num(IF session'[s].shown.k = "deposited"
                           THEN b.v + amount ELSE b.v - amount) :
                          b \in StoredBalances(db, cid)}]_vars

====
